---------------------------- MODULE Spec2Model ----------------------------
(***************************************************************************)
(* Resumable batch scraper of src/app.js: one main thread (the control     *)
(* API, startScraping, stopScraping, the workers' 'exit' handlers) and the *)
(* worker threads it launches with  new Worker(__filename, ...)  (line     *)
(* 368).                                                                   *)
(*                                                                         *)
(* A worker_threads Worker evaluates the file again in its own isolate, so *)
(* the module-level variables of lines 27-32 exist once per thread.  The   *)
(* main thread's copies are shouldPause, shouldStop, processingActive and  *)
(* activeWorkers; thread t's copies are wShouldPause[t], wShouldStop[t]    *)
(* and wActiveWorkers[t].  workerThread runs only in a worker (line 485)   *)
(* and reads and writes that worker's copies.  The threads share the three *)
(* files (status, result table, failure list) and nothing else.            *)
(*                                                                         *)
(* One action is one synchronous stretch of code between two awaits, cut   *)
(* further at every file access, because file accesses of different        *)
(* threads interleave.                                                     *)
(***************************************************************************)
EXTENDS Integers, Sequences, FiniteSets, TLC

\* ------------------------------------------------------------- bounds
\* Length of the input identifier list (INPUT_FILE, read at lines 251-254).
NumCids == 3
\* CONFIG.BATCH_SIZE is 10 at line 21; the model scales it down so that a
\* list of NumCids ids spans more than one batch.
BATCH_SIZE == 2
\* CONFIG.MAX_WORKERS (line 23) is max(1, min(4, cpus - 1)): 2 on a
\* machine with three cores.
MAX_WORKERS == 2
\* Number of /start requests accepted during one model run.
MaxStarts == 1
\* Number of process lifetimes (the process may be killed and started again).
MaxBoots == 2
\* Number of /start requests accepted during one run of the restart scenario
\* (RestartSpec), in which a start follows a stop whose workers still drain.
MaxRestarts == 2

\* ---------------------------------------------------- program constants
MAX_RETRIES == 3

\* The input list: distinct opaque ids, in input order (lines 251-254).
cidList == [i \in 1..NumCids |-> i]
total == Len(cidList)

Threads == 1..(MAX_WORKERS * MaxRestarts)

\* What the portal holds for an id: the RecordData a successful fetch returns.
RecordOf(cid) == [Jan |-> 50 * cid]

\* loadStatus's default (line 61).
DefaultStatus == [last_processed |-> 0, total_processed |-> 0, total_failed |-> 0]

Min(a, b) == IF a < b THEN a ELSE b

VARIABLES
    \* main thread's module variables (lines 27-31)
    shouldPause, shouldStop, processingActive, activeWorkers, workerThreads,
    \* callers currently inside stopScraping's wait loop (lines 403-405)
    stopWaiters,
    \* process bookkeeping: lifetimes so far, /start requests accepted so far
    boot, starts,
    \* history: the persisted cursor found by the latest startScraping, when
    \* the result table then held a row for every id below it (0 otherwise)
    resumeFloor,
    \* the shared files
    statusExists, statusFile, outputFile, failedFile,
    \* per worker thread: position, and its own copies of lines 27-29
    pc, wShouldPause, wShouldStop, wActiveWorkers,
    \* per worker thread: workerThread's locals (lines 256-286)
    status, outputData, notScraped, failedCount,
    batchEnd, idx, processedIds, failedIds,
    \* per worker thread: processCID's local (line 135) and the id it works on
    retries, cid,
    \* history: waits made by the current processCID call, ids present when
    \* the thread loaded the stores, ids for which processCID was ever called,
    \* ids for which a processCID call failed MAX_RETRIES times
    waits, loaded, attempted, exhausted

mainVars == <<shouldPause, shouldStop, processingActive, activeWorkers,
              workerThreads, stopWaiters, boot, starts, resumeFloor>>
fileVars == <<statusExists, statusFile, outputFile, failedFile>>
flagVars == <<wShouldPause, wShouldStop, wActiveWorkers>>
localVars == <<status, outputData, notScraped, failedCount,
               batchEnd, idx, processedIds, failedIds, retries, cid, waits, loaded>>
histVars == <<attempted, exhausted>>
vars == <<mainVars, fileVars, pc, flagVars, localVars, histVars>>

\* ids of the rows of a result table (item.CID, line 292)
CIDs(rows) == {rows[i].CID : i \in 1..Len(rows)}

\* ------------------------------------------------------------ initial
\* A thread that is not running holds nothing.
IdleLocals ==
    /\ status = [t \in Threads |-> DefaultStatus]
    /\ outputData = [t \in Threads |-> <<>>]
    /\ notScraped = [t \in Threads |-> {}]
    /\ failedCount = [t \in Threads |-> 0]
    /\ batchEnd = [t \in Threads |-> 0]
    /\ idx = [t \in Threads |-> 0]
    /\ processedIds = [t \in Threads |-> <<>>]
    /\ failedIds = [t \in Threads |-> <<>>]
    /\ retries = [t \in Threads |-> 0]
    /\ cid = [t \in Threads |-> 0]
    /\ waits = [t \in Threads |-> 0]
    /\ loaded = [t \in Threads |-> {}]

\* The process has just been started and no file exists yet.
Init ==
    /\ shouldPause = FALSE
    /\ shouldStop = FALSE
    /\ processingActive = FALSE
    /\ activeWorkers = 0
    /\ workerThreads = <<>>
    /\ stopWaiters = {}
    /\ boot = 1
    /\ starts = 0
    /\ resumeFloor = 0
    /\ statusExists = FALSE
    /\ statusFile = DefaultStatus
    /\ outputFile = <<>>
    /\ failedFile = {}
    /\ pc = [t \in Threads |-> "idle"]
    /\ wShouldPause = [t \in Threads |-> FALSE]
    /\ wShouldStop = [t \in Threads |-> FALSE]
    /\ wActiveWorkers = [t \in Threads |-> 0]
    /\ IdleLocals
    /\ attempted = {}
    /\ exhausted = {}

\* ------------------------------------------------- worker thread steps
\* What a thread holds when it is not running.
NoLocals(t) ==
    /\ status' = [status EXCEPT ![t] = DefaultStatus]
    /\ outputData' = [outputData EXCEPT ![t] = <<>>]
    /\ notScraped' = [notScraped EXCEPT ![t] = {}]
    /\ failedCount' = [failedCount EXCEPT ![t] = 0]
    /\ batchEnd' = [batchEnd EXCEPT ![t] = 0]
    /\ idx' = [idx EXCEPT ![t] = 0]
    /\ processedIds' = [processedIds EXCEPT ![t] = <<>>]
    /\ failedIds' = [failedIds EXCEPT ![t] = <<>>]
    /\ retries' = [retries EXCEPT ![t] = 0]
    /\ cid' = [cid EXCEPT ![t] = 0]
    /\ waits' = [waits EXCEPT ![t] = 0]
    /\ loaded' = [loaded EXCEPT ![t] = {}]

\* Faulty variant of StopSeen: the worker reads the main thread's flag.
StopSeenShared(t) == shouldStop

\* The stop flag as workerThread and processCID read it (lines 137, 216, 267,
\* 289): the copy of the thread that runs them.
StopSeen(t) == wShouldStop[t]

\* The pause flag as checkPause reads it (lines 120, 122).
PauseSeen(t) == wShouldPause[t]

\* Lines 228-246 fail (the browser cannot be built, the input cannot be
\* read): catch at 334, finally at 337; driver is null, the thread ends.
SetupCrash(t) ==
    /\ pc[t] = "setup"
    /\ pc' = [pc EXCEPT ![t] = "exited"]
    /\ wActiveWorkers' = [wActiveWorkers EXCEPT ![t] = @ - 1]
    /\ UNCHANGED <<mainVars, fileVars, wShouldPause, wShouldStop, localVars, histVars>>

\* Lines 243-254, then loadExistingData's read of the result table (77-86)
\* and line 260.
LoadOutput(t) ==
    /\ pc[t] = "setup"
    /\ outputData' = [outputData EXCEPT ![t] = outputFile]
    /\ loaded' = [loaded EXCEPT ![t] = CIDs(outputFile)]
    /\ pc' = [pc EXCEPT ![t] = "loadFailed"]
    /\ UNCHANGED <<mainVars, fileVars, flagVars, status, notScraped, failedCount,
                   batchEnd, idx, processedIds, failedIds, retries, cid, waits, histVars>>

\* loadExistingData's read of the failure list (89-96) and line 261.
LoadFailed(t) ==
    /\ pc[t] = "loadFailed"
    /\ notScraped' = [notScraped EXCEPT ![t] = failedFile]
    /\ loaded' = [loaded EXCEPT ![t] = @ \cup failedFile]
    /\ pc' = [pc EXCEPT ![t] = "loadStatus"]
    /\ UNCHANGED <<mainVars, fileVars, flagVars, status, outputData, failedCount,
                   batchEnd, idx, processedIds, failedIds, retries, cid, waits, histVars>>

\* Faulty variants of AlreadyProcessed: the dedup test forgets the failure set, or
\* forgets the result rows.
AlreadyProcessedRowsOnly(rows, failed, c) == c \in CIDs(rows)
AlreadyProcessedFailedOnly(rows, failed, c) == c \in failed

\* Line 292: the dedup test against the thread's own accumulators.
AlreadyProcessed(rows, failed, c) == c \in CIDs(rows) \/ c \in failed

\* The indexes from..to of the input list the for loop does not skip.
Todo(rows, failed, from, to) ==
    {i \in from..to : ~AlreadyProcessed(rows, failed, cidList[i])}

\* The index at which the for loop stops skipping: the first one it has to
\* fetch, or one past the batch.
FirstTodo(rows, failed, from, to) ==
    IF Todo(rows, failed, from, to) = {}
      THEN to + 1
      ELSE CHOOSE i \in Todo(rows, failed, from, to) :
             \A j \in Todo(rows, failed, from, to) : i <= j

\* The for loop of lines 288-296 from index `from` on, with the accumulators
\* rows and failed: a stop breaks out, processed ids are skipped, and for
\* the first other id processCID is entered (135-139) and its first attempt
\* begins; at the end of the batch the status is about to be saved.
EnterFor(t, rows, failed, from, to) ==
    IF StopSeen(t) \/ FirstTodo(rows, failed, from, to) > to
      THEN /\ idx' = [idx EXCEPT ![t] = IF StopSeen(t) THEN from ELSE to + 1]
           /\ pc' = [pc EXCEPT ![t] = "saveStatus"]
           /\ UNCHANGED <<cid, retries, waits, attempted>>
      ELSE /\ idx' = [idx EXCEPT ![t] = FirstTodo(rows, failed, from, to)]
           /\ cid' = [cid EXCEPT ![t] = cidList[FirstTodo(rows, failed, from, to)]]
           /\ retries' = [retries EXCEPT ![t] = 0]
           /\ waits' = [waits EXCEPT ![t] = 0]
           /\ attempted' = attempted \cup {cidList[FirstTodo(rows, failed, from, to)]}
           /\ pc' = [pc EXCEPT ![t] = "fetch"]

\* Line 277: the cursor st has reached the end of the input list.
NoMoreCids(st) == st.last_processed >= total

\* Line 275.
BatchEndOf(batchStart) == Min(batchStart + BATCH_SIZE, total)

\* Leaving the loop (lines 270, 279 or the condition of 267), line 332 and
\* the finally block up to the await of driver.quit() (337-339).
LeaveLoop(t) ==
    /\ pc' = [pc EXCEPT ![t] = "quit"]
    /\ wActiveWorkers' = [wActiveWorkers EXCEPT ![t] = @ - 1]
    /\ UNCHANGED <<batchEnd, idx, processedIds, failedIds, cid, retries, waits, attempted>>

\* One turn of the while loop with the thread's status st (267-286): the
\* loop condition, checkPause (119-132), the batch bounds, then the for
\* loop.  While paused the thread polls (123) and stays at the loop head.
EnterLoop(t, st) ==
    IF StopSeen(t)
      THEN /\ LeaveLoop(t)
           /\ wShouldStop' = [wShouldStop EXCEPT ![t] = TRUE]
      ELSE /\ UNCHANGED wShouldStop
           /\ IF PauseSeen(t)
                THEN /\ pc' = [pc EXCEPT ![t] = "loop"]
                     /\ UNCHANGED <<wActiveWorkers, batchEnd, idx, processedIds, failedIds,
                                    cid, retries, waits, attempted>>
                ELSE IF NoMoreCids(st)
                       THEN LeaveLoop(t)
                       ELSE /\ batchEnd' = [batchEnd EXCEPT ![t] = BatchEndOf(st.last_processed)]
                            /\ processedIds' = [processedIds EXCEPT ![t] = <<>>]
                            /\ failedIds' = [failedIds EXCEPT ![t] = <<>>]
                            /\ EnterFor(t, outputData[t], notScraped[t],
                                        st.last_processed + 1, BatchEndOf(st.last_processed))
                            /\ UNCHANGED wActiveWorkers

\* loadStatus (52-62) and lines 263-265; the thread then enters the loop.
LoadStatus(t) ==
    /\ pc[t] = "loadStatus"
    /\ status' = [status EXCEPT ![t] = statusFile]
    /\ failedCount' = [failedCount EXCEPT ![t] = statusFile.total_failed]
    /\ EnterLoop(t, statusFile)
    /\ UNCHANGED <<mainVars, fileVars, wShouldPause, outputData, notScraped, loaded, exhausted>>

\* The delay of line 329, or a poll of checkPause (123), is over.
LoopWake(t) ==
    /\ pc[t] = "loop"
    /\ EnterLoop(t, status[t])
    /\ UNCHANGED <<mainVars, fileVars, wShouldPause, status, outputData, notScraped,
                   failedCount, loaded, exhausted>>

\* Lines 300-303: processCID returned data; the for loop goes on.
RecordSuccess(t) ==
    /\ outputData' = [outputData EXCEPT ![t] = Append(@, [CID |-> cid[t], data |-> RecordOf(cid[t])])]
    /\ processedIds' = [processedIds EXCEPT ![t] = Append(@, cid[t])]
    /\ EnterFor(t, Append(outputData[t], [CID |-> cid[t], data |-> RecordOf(cid[t])]),
                notScraped[t], idx[t] + 1, batchEnd[t])
    /\ UNCHANGED <<notScraped, failedIds, failedCount>>

\* Lines 305-313: processCID threw, or returned null and line 306 threw; the
\* for loop goes on.
RecordFailure(t) ==
    /\ notScraped' = [notScraped EXCEPT ![t] = @ \cup {cid[t]}]
    /\ failedIds' = [failedIds EXCEPT ![t] = Append(@, cid[t])]
    /\ failedCount' = [failedCount EXCEPT ![t] = @ + 1]
    /\ EnterFor(t, outputData[t], notScraped[t] \cup {cid[t]}, idx[t] + 1, batchEnd[t])
    /\ UNCHANGED <<outputData, processedIds>>

\* What one pass of processCID's try block (138-212) can end in: the data,
\* an error, or null when a stop is seen while waiting for the network (141).
Outcomes(t) == {"data", "error"} \cup (IF StopSeen(t) THEN {"null"} ELSE {})

\* Faulty variant of RetryAgain: one retry too many.
RetryAgainOffByOne(t, n) == n <= MAX_RETRIES /\ ~StopSeen(t)

\* Line 216: whether a failed attempt, the n-th, is followed by a wait.
RetryAgain(t, n) == n < MAX_RETRIES /\ ~StopSeen(t)

\* One attempt of processCID ends (138-221): with the data (212), or in the
\* catch block (213-221), which waits and retries or rethrows.
Attempt(t) ==
    /\ pc[t] = "fetch"
    /\ \E o \in Outcomes(t) :
         IF o = "data"
           THEN RecordSuccess(t) /\ UNCHANGED exhausted
           ELSE IF o = "null"
                  THEN RecordFailure(t) /\ UNCHANGED exhausted
                  ELSE IF RetryAgain(t, retries[t] + 1)
                         THEN /\ retries' = [retries EXCEPT ![t] = @ + 1]
                              /\ pc' = [pc EXCEPT ![t] = "retryWait"]
                              /\ UNCHANGED <<outputData, processedIds, notScraped, failedIds,
                                             failedCount, idx, cid, waits, histVars>>
                         ELSE /\ RecordFailure(t)
                              /\ exhausted' = IF retries[t] + 1 >= MAX_RETRIES
                                                THEN exhausted \cup {cid[t]}
                                                ELSE exhausted
    /\ UNCHANGED <<mainVars, fileVars, flagVars, status, batchEnd, loaded>>

\* The RETRY_DELAY timer of line 217 fires and the loop condition of line
\* 137 is read again: the next attempt begins, or processCID returns null
\* (223) and line 306 throws.
RetryWait(t) ==
    /\ pc[t] = "retryWait"
    /\ IF retries[t] < MAX_RETRIES /\ ~StopSeen(t)
         THEN /\ waits' = [waits EXCEPT ![t] = @ + 1]
              /\ pc' = [pc EXCEPT ![t] = "fetch"]
              /\ UNCHANGED <<outputData, processedIds, notScraped, failedIds, failedCount,
                             idx, cid, retries, attempted>>
         ELSE RecordFailure(t)
    /\ UNCHANGED <<mainVars, fileVars, flagVars, status, batchEnd, loaded, exhausted>>

\* Faulty variant of NextStatus: the cursor is not advanced.
NextStatusStale(t) ==
    [last_processed |-> status[t].last_processed,
     total_processed |-> status[t].total_processed + Len(processedIds[t]),
     total_failed |-> failedCount[t]]

\* Lines 317-319: the status the thread saves at the end of a batch.
NextStatus(t) ==
    [last_processed |-> batchEnd[t],
     total_processed |-> status[t].total_processed + Len(processedIds[t]),
     total_failed |-> failedCount[t]]

\* Lines 316-320: the status is updated and saveStatus (64-70) writes it.
SaveStatus(t) ==
    /\ pc[t] = "saveStatus"
    /\ status' = [status EXCEPT ![t] = NextStatus(t)]
    /\ statusFile' = NextStatus(t)
    /\ statusExists' = TRUE
    /\ pc' = [pc EXCEPT ![t] = "saveData"]
    /\ UNCHANGED <<mainVars, outputFile, failedFile, flagVars, outputData, notScraped,
                   failedCount, batchEnd, idx, processedIds, failedIds, retries, cid,
                   waits, loaded, histVars>>

\* Line 323: whether the batch produced anything to save.
BatchDirty(t) == Len(processedIds[t]) > 0 \/ Len(failedIds[t]) > 0

\* saveData's write of the result table (104-107): the whole accumulator.
\* With nothing to save, the delay of line 329 begins.
SaveOutput(t) ==
    /\ pc[t] = "saveData"
    /\ IF BatchDirty(t)
         THEN /\ outputFile' = outputData[t]
              /\ pc' = [pc EXCEPT ![t] = "saveFailed"]
         ELSE /\ UNCHANGED outputFile
              /\ pc' = [pc EXCEPT ![t] = "loop"]
    /\ UNCHANGED <<mainVars, statusExists, statusFile, failedFile, flagVars, localVars, histVars>>

\* What saveData leaves in the failure list (110-113): it writes the thread's
\* set only when that set is not empty.
FailedWritten(t) == IF notScraped[t] # {} THEN notScraped[t] ELSE failedFile

\* saveData's write of the failure list, then the delay of line 329 begins.
SaveFailed(t) ==
    /\ pc[t] = "saveFailed"
    /\ failedFile' = FailedWritten(t)
    /\ pc' = [pc EXCEPT ![t] = "loop"]
    /\ UNCHANGED <<mainVars, statusExists, statusFile, outputFile, flagVars, localVars, histVars>>

\* driver.quit() resolves (339-340), line 489, and the thread ends: its
\* 'exit' event is now pending in the main thread.
QuitDone(t) ==
    /\ pc[t] = "quit"
    /\ pc' = [pc EXCEPT ![t] = "exited"]
    /\ NoLocals(t)
    /\ UNCHANGED <<mainVars, fileVars, flagVars, histVars>>

WorkerStep(t) ==
    \/ SetupCrash(t)
    \/ LoadOutput(t)
    \/ LoadFailed(t)
    \/ LoadStatus(t)
    \/ LoopWake(t)
    \/ Attempt(t)
    \/ RetryWait(t)
    \/ SaveStatus(t)
    \/ SaveOutput(t)
    \/ SaveFailed(t)
    \/ QuitDone(t)

\* --------------------------------------------------- main thread steps
\* The threads startScraping launches on its (starts + 1)-th call.
NewThreads == {starts * MAX_WORKERS + i : i \in 1..MAX_WORKERS}

\* The cursor a start resumes from, when the persisted result table covers
\* every id below it.
ResumeFloor ==
    IF statusExists /\ \A i \in 1..statusFile.last_processed : cidList[i] \in CIDs(outputFile)
      THEN statusFile.last_processed
      ELSE 0

\* startScraping (345-396), reached from POST /start (413-423); at most
\* `limit` starts are accepted.
StartScraping(limit) ==
    /\ ~processingActive
    /\ starts < limit
    /\ resumeFloor' = ResumeFloor
    /\ shouldPause' = FALSE
    /\ shouldStop' = FALSE
    /\ processingActive' = TRUE
    /\ statusExists' = TRUE
    /\ statusFile' = IF statusExists THEN statusFile ELSE DefaultStatus
    /\ activeWorkers' = MAX_WORKERS
    /\ starts' = starts + 1
    /\ workerThreads' = workerThreads \o [i \in 1..MAX_WORKERS |-> starts * MAX_WORKERS + i]
    /\ pc' = [t \in Threads |-> IF t \in NewThreads THEN "setup" ELSE pc[t]]
    /\ wShouldPause' = [t \in Threads |-> IF t \in NewThreads THEN FALSE ELSE wShouldPause[t]]
    /\ wShouldStop' = [t \in Threads |-> IF t \in NewThreads THEN FALSE ELSE wShouldStop[t]]
    /\ wActiveWorkers' = [t \in Threads |-> IF t \in NewThreads THEN 0 ELSE wActiveWorkers[t]]
    /\ UNCHANGED <<stopWaiters, boot, outputFile, failedFile, localVars, histVars>>

Start == StartScraping(MaxStarts)

\* The 'exit' handler of a worker (383-392).
OnExit(t) ==
    /\ pc[t] = "exited"
    /\ pc' = [pc EXCEPT ![t] = "reaped"]
    /\ activeWorkers' = activeWorkers - 1
    /\ processingActive' = IF activeWorkers - 1 = 0 THEN FALSE ELSE processingActive
    /\ UNCHANGED <<shouldPause, shouldStop, workerThreads, stopWaiters, boot, starts,
                   resumeFloor, fileVars, flagVars, localVars, histVars>>

\* POST /pause (425-432).
Pause ==
    /\ processingActive
    /\ shouldPause' = TRUE
    /\ UNCHANGED <<shouldStop, processingActive, activeWorkers, workerThreads, stopWaiters,
                   boot, starts, resumeFloor, fileVars, pc, flagVars, localVars, histVars>>

\* POST /resume (434-441).
Resume ==
    /\ shouldPause
    /\ shouldPause' = FALSE
    /\ UNCHANGED <<shouldStop, processingActive, activeWorkers, workerThreads, stopWaiters,
                   boot, starts, resumeFloor, fileVars, pc, flagVars, localVars, histVars>>

\* stopScraping up to its wait loop (399-403), entered from POST /stop
\* (443-448) or from the interrupt handler (467-469).
StopBegin(caller) ==
    /\ shouldStop' = TRUE
    /\ processingActive' = FALSE
    /\ stopWaiters' = stopWaiters \cup {caller}
    /\ UNCHANGED <<shouldPause, activeWorkers, workerThreads, boot, starts, resumeFloor,
                   fileVars, pc, flagVars, localVars, histVars>>

StopRequest ==
    /\ processingActive
    /\ StopBegin("http")

\* The process ends and is started again: every thread is gone, the files stay.
Reboot ==
    /\ shouldPause' = FALSE
    /\ shouldStop' = FALSE
    /\ processingActive' = FALSE
    /\ activeWorkers' = 0
    /\ workerThreads' = <<>>
    /\ stopWaiters' = {}
    /\ boot' = boot + 1
    /\ starts' = 0
    /\ resumeFloor' = 0
    /\ pc' = [t \in Threads |-> "idle"]
    /\ wShouldPause' = [t \in Threads |-> FALSE]
    /\ wShouldStop' = [t \in Threads |-> FALSE]
    /\ wActiveWorkers' = [t \in Threads |-> 0]
    /\ status' = [t \in Threads |-> DefaultStatus]
    /\ outputData' = [t \in Threads |-> <<>>]
    /\ notScraped' = [t \in Threads |-> {}]
    /\ failedCount' = [t \in Threads |-> 0]
    /\ batchEnd' = [t \in Threads |-> 0]
    /\ idx' = [t \in Threads |-> 0]
    /\ processedIds' = [t \in Threads |-> <<>>]
    /\ failedIds' = [t \in Threads |-> <<>>]
    /\ retries' = [t \in Threads |-> 0]
    /\ cid' = [t \in Threads |-> 0]
    /\ waits' = [t \in Threads |-> 0]
    /\ loaded' = [t \in Threads |-> {}]
    /\ UNCHANGED <<fileVars, histVars>>

\* The interrupt signal (467-469).
Interrupt ==
    /\ boot < MaxBoots
    /\ StopBegin("sigint")

\* stopScraping's wait loop ends (403-407).  POST /stop then answers; the
\* interrupt handler calls process.exit (470).
StopReturn(caller) ==
    /\ caller \in stopWaiters
    /\ ~(activeWorkers > 0)
    /\ IF caller = "sigint"
         THEN Reboot
         ELSE /\ workerThreads' = <<>>
              /\ stopWaiters' = stopWaiters \ {caller}
              /\ UNCHANGED <<shouldPause, shouldStop, processingActive, activeWorkers,
                             boot, starts, resumeFloor, fileVars, pc, flagVars, localVars,
                             histVars>>

\* The process is killed at an arbitrary point and started again.
Kill ==
    /\ boot < MaxBoots
    /\ Reboot

Next ==
    \/ \E t \in Threads : WorkerStep(t)
    \/ Start
    \/ \E t \in Threads : OnExit(t)
    \/ Pause
    \/ Resume
    \/ StopRequest
    \/ Interrupt
    \/ \E c \in {"http", "sigint"} : StopReturn(c)
    \/ Kill

Spec == Init /\ [][Next]_vars

\* A run without faults and without a stop: the browser is built, nobody
\* asks for a stop, the process is not killed.  Each worker is a thread of
\* its own and every wait in it is a timer or an I/O completion, so a worker
\* that can take a step eventually takes one; the main thread's event loop
\* eventually handles a pending 'exit' event.
WorkerRun(t) ==
    \/ LoadOutput(t)
    \/ LoadFailed(t)
    \/ LoadStatus(t)
    \/ LoopWake(t)
    \/ Attempt(t)
    \/ RetryWait(t)
    \/ SaveStatus(t)
    \/ SaveOutput(t)
    \/ SaveFailed(t)
    \/ QuitDone(t)

LiveNext ==
    \/ \E t \in Threads : WorkerRun(t)
    \/ Start
    \/ \E t \in Threads : OnExit(t)
    \/ Pause
    \/ Resume

LiveSpec ==
    /\ Init
    /\ [][LiveNext]_vars
    /\ \A t \in Threads : WF_vars(WorkerRun(t))
    /\ \A t \in Threads : WF_vars(OnExit(t))

\* The restart scenario: a /start that follows a /stop whose workers are
\* still running (stopScraping clears processingActive at line 400, so the
\* test of line 346 lets the start through).  The scenario is a part of the
\* program's behaviour: the portal answers every fetch at the first attempt,
\* nobody pauses, the process is not killed, and the workers of a later
\* start, unless their setup fails, get past it once those of the earlier
\* starts have ended.
Restart == StartScraping(MaxRestarts)

Ended(t) == pc[t] \in {"idle", "exited", "reaped"}

\* The workers launched by the starts before the one that launched t.
Earlier(t) == {u \in Threads : (u - 1) \div MAX_WORKERS < (t - 1) \div MAX_WORKERS}

\* Thread t's turn has come: the workers of the earlier starts have ended.
Turn(t) == \A u \in Earlier(t) : Ended(u)

\* A worker's steps in the scenario; an attempt returns the data.
FirstTry(t) ==
    \/ SetupCrash(t)
    \/ Turn(t) /\ LoadOutput(t)
    \/ Turn(t) /\ LoadFailed(t)
    \/ Turn(t) /\ LoadStatus(t)
    \/ Turn(t) /\ LoopWake(t)
    \/ Turn(t) /\ Attempt(t) /\ pc'[t] # "retryWait"
    \/ Turn(t) /\ SaveStatus(t)
    \/ Turn(t) /\ SaveOutput(t)
    \/ Turn(t) /\ SaveFailed(t)
    \/ Turn(t) /\ QuitDone(t)

RestartNext ==
    \/ \E t \in Threads : FirstTry(t)
    \/ Restart
    \/ \E t \in Threads : OnExit(t)
    \/ StopRequest
    \/ StopReturn("http")

RestartSpec == Init /\ [][RestartNext]_vars

\* The scenario of a portal with fixed answers: the fetch of an id of
\* FailingIds fails at every attempt, the fetch of any other id returns the
\* data at the first attempt.  One run, without pause, stop, kill or setup
\* failure.
FailingIds == {2}

FixedAttempt(t) ==
    /\ Attempt(t)
    /\ IF cid[t] \in FailingIds
         THEN outputData'[t] = outputData[t]
         ELSE outputData'[t] # outputData[t]

FixedRun(t) ==
    \/ LoadOutput(t)
    \/ LoadFailed(t)
    \/ LoadStatus(t)
    \/ LoopWake(t)
    \/ FixedAttempt(t)
    \/ RetryWait(t)
    \/ SaveStatus(t)
    \/ SaveOutput(t)
    \/ SaveFailed(t)
    \/ QuitDone(t)

FixedNext ==
    \/ \E t \in Threads : FixedRun(t)
    \/ Start
    \/ \E t \in Threads : OnExit(t)

FixedSpec == Init /\ [][FixedNext]_vars

\* ------------------------------------------------------------- claims
NoDup(rows) == \A i, j \in 1..Len(rows) : rows[i].CID = rows[j].CID => i = j

Running(t) == pc[t] \in {"loadFailed", "loadStatus", "loop", "fetch", "retryWait",
                         "saveStatus", "saveData", "saveFailed"}

\* Thread t enters processCID in this step.
StartsFetch(t) ==
    /\ pc'[t] = "fetch"
    /\ pc[t] \notin {"fetch", "retryWait"} \/ cid'[t] # cid[t]

\* Thread t adds an id to its failure set in this step (lines 310-312).
FailsNow(t) ==
    /\ pc[t] \in {"fetch", "retryWait"}
    /\ boot' = boot
    /\ notScraped'[t] # notScraped[t]

\* An attempt of thread t ends in the catch block of line 213 in this step.
AttemptFails(t) ==
    /\ pc[t] = "fetch"
    /\ boot' = boot
    /\ outputData'[t] = outputData[t]
    /\ <<pc[t], idx[t], retries[t]>> # <<pc'[t], idx'[t], retries'[t]>>

\* C1: a worker that has just advanced the cursor (it saved the status and is
\* about to save the data) holds every id below the cursor it saved in its
\* result rows or in its failure set.
C1_CursorCoveredByAdvancer ==
    \A t \in Threads :
        pc[t] = "saveData" =>
            \A i \in 1..status[t].last_processed :
                AlreadyProcessed(outputData[t], notScraped[t], cidList[i])

\* C2: no write of the status file lowers last_processed.
C2_CursorMonotonic ==
    [][statusFile'.last_processed >= statusFile.last_processed]_vars

\* C3: while a worker is inside processCID, the id it fetches is none of the
\* ids that were in the result table or the failure list when it loaded them.
C3_LoadedNeverFetched ==
    \A t \in Threads : pc[t] \in {"fetch", "retryWait"} => cid[t] \notin loaded[t]

\* A worker's for loop has passed, without fetching it, an id of its batch
\* that was in the stores it loaded.
C3_Witness ==
    \E t \in Threads :
        /\ pc[t] \in {"fetch", "retryWait", "saveStatus"}
        /\ \E i \in (status[t].last_processed + 1)..(idx[t] - 1) : cidList[i] \in loaded[t]

\* C4: within the first lifetime of the process (every persisted row was
\* written during it), no worker enters processCID for an id that has a row
\* in the persisted result table.
C4_NoFetchAfterPersist ==
    [][boot = 1 =>
         \A t \in Threads : StartsFetch(t) => cid'[t] \notin CIDs(outputFile)]_vars

\* C5: the persisted result table and every worker's outputData hold at most
\* one row per id.
C5_OneEntryPerId ==
    /\ NoDup(outputFile)
    /\ \A t \in Threads : NoDup(outputData[t])

\* After a restart a worker loaded rows, appended a row of its own and saved
\* the table.
C5_Witness ==
    /\ boot = 2
    /\ \E t \in Threads :
        /\ CIDs(outputData[t]) \cap loaded[t] # {}
        /\ Len(processedIds[t]) > 0
        /\ outputFile = outputData[t]

\* C6: every write of the failure list stores a superset of what it overwrites.
C6_FailureSetGrows ==
    [][failedFile \subseteq failedFile']_vars

\* C7: every row of the persisted result table is still in it, unchanged,
\* after any step.
C7_ResultSetAppendOnly ==
    [][\A i \in 1..Len(outputFile) :
          \E j \in 1..Len(outputFile') : outputFile'[j] = outputFile[i]]_vars

\* A run has been started and every worker it launched has ended.
AllTerminated == starts > 0 /\ \A t \in Threads : pc[t] \in {"idle", "exited", "reaped"}

AllAttempted == \A i \in 1..total : cidList[i] \in attempted

C9_RetryExhaustion ==
    /\ [](\A t \in Threads :
            /\ pc[t] = "fetch" => waits[t] = retries[t] /\ retries[t] < MAX_RETRIES
            /\ pc[t] = "retryWait" => waits[t] = retries[t] - 1 /\ retries[t] < MAX_RETRIES)
    /\ [][\A t \in Threads :
            /\ AttemptFails(t) =>
                 IF retries[t] + 1 < MAX_RETRIES
                   THEN /\ pc'[t] = "retryWait"
                        /\ notScraped'[t] = notScraped[t]
                        /\ failedCount'[t] = failedCount[t]
                   ELSE /\ pc'[t] # "retryWait"
                        /\ notScraped'[t] = notScraped[t] \cup {cid[t]}
                        /\ failedCount'[t] = failedCount[t] + 1
            /\ FailsNow(t) => AttemptFails(t) /\ retries[t] + 1 = MAX_RETRIES]_vars

\* A worker has recorded a failure in the current batch.
C9_Witness ==
    \E t \in Threads : Len(failedIds[t]) > 0 /\ failedCount[t] > 0 /\ cid[t] \in notScraped[t]

\* C10: every id of the persisted failure list and of every worker's failure
\* set is an id whose fetch failed MAX_RETRIES times, and a worker's failed
\* counter grows only in the step that ends the MAX_RETRIES-th attempt.
C10_FailureMeansExhausted ==
    /\ [](/\ failedFile \subseteq exhausted
          /\ \A t \in Threads : notScraped[t] \subseteq exhausted)
    /\ [][\A t \in Threads :
            (boot' = boot /\ Running(t) /\ pc[t] # "loadStatus"
                /\ failedCount'[t] # failedCount[t])
              => /\ cid[t] \in exhausted'
                 /\ retries[t] + 1 = MAX_RETRIES]_vars

\* A stop has been requested, a worker is nonetheless in the last attempt
\* for an id, and ids it recorded as failed are in the persisted failure list.
C10_Witness ==
    /\ shouldStop
    /\ \E t \in Threads :
        /\ pc[t] = "fetch"
        /\ retries[t] = MAX_RETRIES - 1
        /\ notScraped[t] # {}
        /\ notScraped[t] \subseteq failedFile

\* C11: while a pause is requested and not yet resumed, a worker that is
\* inside a batch (in a fetch for an id of it) starts no fetch for a further
\* id.
C11_NoFetchWhilePaused ==
    [][\A t \in Threads :
         (shouldPause /\ shouldPause' /\ pc[t] \in {"fetch", "retryWait"})
            => ~StartsFetch(t)]_vars

\* C12: while a stop is requested, a worker whose wait between two retries of
\* an id ends makes no further attempt for that id.
C12_StopAbandonsRetries ==
    [][\A t \in Threads :
         (shouldStop /\ shouldStop' /\ pc[t] = "retryWait")
            => ~(pc'[t] = "fetch" /\ cid'[t] = cid[t])]_vars

\* A worker that was launched and has not terminated.
Alive(t) == pc[t] \notin {"idle", "exited", "reaped"}

\* The workers the first start launched: they are launched before any stop
\* request is accepted.
FirstLaunch == 1..MAX_WORKERS

\* C13: in the state where stopScraping returns to POST /stop, no worker that
\* was launched before the stop was requested is still running.
C13_StopReturnsWhenDrained ==
    [][("http" \in stopWaiters /\ "http" \notin stopWaiters' /\ boot' = boot)
          => \A t \in FirstLaunch : ~Alive(t)]_vars

\* C14: once a stop is requested, a worker that reaches its next checkpoint,
\* the head of the batch loop, leaves the loop and terminates.
C14_StopObservedAtCheckpoint ==
    [][\A t \in Threads :
         (shouldStop /\ shouldStop' /\ pc[t] = "loop" /\ pc'[t] # "loop")
            => pc'[t] = "quit"]_vars

\* The workers the latest start launched.
LastLaunch == {t \in Threads : (t - 1) \div MAX_WORKERS = starts - 1}

\* A run is Running or Paused: the latest start launched a worker that has
\* not terminated, and no stop was requested since.
RunActive == ~shouldStop /\ \E t \in LastLaunch : Alive(t)

\* C15: a request whose precondition fails is rejected.  While a run is
\* Running or Paused startScraping's test (line 346) rejects a start; the
\* pause flag is raised, and POST /stop enters stopScraping, only in a state
\* where a run is active.
C15_RejectedWithoutPrecondition ==
    /\ [](RunActive => processingActive)
    /\ [][/\ (shouldPause' /\ ~shouldPause) => processingActive
          /\ ("http" \in stopWaiters' /\ "http" \notin stopWaiters) => processingActive]_vars

\* C16: after a start that found the persisted cursor K and a result table
\* with a row for every id below K, no worker enters processCID for an id
\* at an index below K (the ids 1..K of the list, counted from 1).
C16_NoFetchBelowCursor ==
    [][\A t \in Threads : StartsFetch(t) => idx'[t] > resumeFloor']_vars

Rows(rows) == {rows[i] : i \in 1..Len(rows)}

\* C17: with fixed answers, when the run from empty stores has ended the
\* persisted result table holds exactly the rows of the succeeding ids, the
\* failure list exactly the failing ids, the cursor is the length of the
\* list and the two totals count the rows and the failures.
C17_FullRunResult ==
    AllTerminated =>
        /\ Rows(outputFile) = {[CID |-> cidList[i], data |-> RecordOf(cidList[i])] :
                                  i \in {j \in 1..total : cidList[j] \notin FailingIds}}
        /\ failedFile = FailingIds
        /\ statusFile = [last_processed |-> total,
                         total_processed |-> total - Cardinality(FailingIds),
                         total_failed |-> Cardinality(FailingIds)]

\* C18: the state a dead process leaves behind (the process has been started
\* again and no run has begun yet) has every id below the persisted cursor in
\* the persisted result table or in the persisted failure list.
C18_CrashLeavesCursorCovered ==
    (boot > 1 /\ starts = 0) =>
        \A i \in 1..statusFile.last_processed :
            cidList[i] \in CIDs(outputFile) \cup failedFile

\* Thread t is inside its batch loop (lines 267-330).
InLoop(t) == pc[t] \in {"loop", "fetch", "retryWait", "saveStatus", "saveData", "saveFailed"}

\* C19: while a stop is requested, a worker that is inside its batch loop
\* enters processCID for no further id.
C19_NoNewFetchAfterStop ==
    [][\A t \in Threads :
         (shouldStop /\ shouldStop' /\ InLoop(t)) => ~StartsFetch(t)]_vars

\* C20: the main thread's counter is the number of launched workers whose
\* termination it has not yet seen, and an 'exit' handler marks the run
\* inactive exactly when it brings that number to zero.
C20_CounterCountsLiveWorkers ==
    /\ [](activeWorkers = Cardinality({t \in Threads : pc[t] \notin {"idle", "reaped"}}))
    /\ [][\A t \in Threads :
            (pc[t] = "exited" /\ pc'[t] = "reaped") =>
                IF \A u \in Threads : pc'[u] \in {"idle", "reaped"}
                  THEN ~processingActive'
                  ELSE processingActive' = processingActive]_vars

=============================================================================
